---------------------------- MODULE Spec2Model ----------------------------
(***************************************************************************)
(* Model of src/main.py: the FastAPI backend with the endpoints /,         *)
(* /api/hello, /test and /quiz.                                            *)
(*                                                                         *)
(* Strings of the environment, of the fallback pool and of the quiz        *)
(* fields are sequences of one-character strings.  The text returned by    *)
(* the upstream model is a sequence of tokens (records): single            *)
(* characters Ch(c), and Members(p, s), which stands for the run of        *)
(* characters  "prompt": p, "solution": s  (the members of a JSON object,  *)
(* without the enclosing braces; a field that is Absent is left out).      *)
(***************************************************************************)
EXTENDS Integers, Sequences, FiniteSets, TLC

VARIABLES
    env,        \* os.environ: variable name -> [set, val]
    req         \* the requests being served: slot -> the handler's frame

vars == <<env, req>>

---------------------------------------------------------------------------
(* Bounds of the model *)

\* number of requests served concurrently in Spec
MaxSlots == 2
\* longest run of characters before and after the braces of the upstream text
MaxAffix == 1
\* largest number of collections the database handle enumerates
MaxCollections == 11

(* Constants of the program *)

PromptLimit == 300
SolutionLimit == 100
ErrorLimit == 50
CollectionsLimit == 10

---------------------------------------------------------------------------
(* Python strings and slices *)

Rep(c, n) == [i \in 1..n |-> c]

MinOf(S) == CHOOSE x \in S : \A y \in S : x <= y
MaxOf(S) == CHOOSE x \in S : \A y \in S : x >= y

\* s[:n]
Take(s, n) == SubSeq(s, 1, IF Len(s) < n THEN Len(s) ELSE n)

\* s.strip(chars): drop the leading and the trailing elements that are in cs
Strip(s, cs) ==
    LET keep == {i \in 1..Len(s) : s[i] \notin cs}
    IN  IF keep = {} THEN <<>> ELSE SubSeq(s, MinOf(keep), MaxOf(keep))

\* s.find(c) and s.rfind(c), 1-based; NotFound is Python's -1
NotFound == 0
Find(s, c) ==
    LET at == {i \in 1..Len(s) : s[i] = c}
    IN  IF at = {} THEN NotFound ELSE MinOf(at)
RFind(s, c) ==
    LET at == {i \in 1..Len(s) : s[i] = c}
    IN  IF at = {} THEN NotFound ELSE MaxOf(at)

\* the whitespace str.strip() removes, among the characters of the model
Whitespace == {" "}

---------------------------------------------------------------------------
(* The environment *)

Unset == [set |-> FALSE, val |-> <<>>]
Val(s) == [set |-> TRUE, val |-> s]

\* os.getenv(name, default)
Getenv(e, name, default) == IF e[name].set THEN e[name].val ELSE default

\* truth value of os.getenv(name): None and "" are false
GetenvTruthy(e, name) == e[name].set /\ e[name].val # <<>>

---------------------------------------------------------------------------
(* The fallback selector *)

pool ==
    << [prompt |->
        <<"I","f"," ","f","(","x",")"," ","="," ","2","x","^","2"," ","-"," ","3","x"," ",
          "+"," ","1",","," ","w","h","a","t"," ","i","s"," ","f","(","3",")","?">>,
        solution |-> <<"1","0">>],
       [prompt |->
        <<"W","h","i","c","h"," ","p","l","a","n","e","t"," ","h","a","s"," ","t","h","e",
          " ","s","t","r","o","n","g","e","s","t"," ","s","u","r","f","a","c","e"," ",
          "g","r","a","v","i","t","y"," ","a","m","o","n","g"," ","E","a","r","t","h",
          ","," ","M","a","r","s",","," ","a","n","d"," ","J","u","p","i","t","e","r",
          "?">>,
        solution |-> <<"J","u","p","i","t","e","r">>],
       [prompt |->
        <<"W","h","o"," ","w","r","o","t","e"," ","t","h","e"," ","p","l","a","y"," ","'",
          "H","a","m","l","e","t","'","?">>,
        solution |->
        <<"W","i","l","l","i","a","m"," ","S","h","a","k","e","s","p","e","a","r","e">>],
       \* "deg" is the one character U+00B0
       [prompt |->
        <<"I","n"," ","c","h","e","m","i","s","t","r","y",","," ","w","h","a","t"," ","i",
          "s"," ","t","h","e"," ","p","H"," ","o","f"," ","a"," ","n","e","u","t","r",
          "a","l"," ","s","o","l","u","t","i","o","n"," ","a","t"," ","2","5","deg",
          "C","?">>,
        solution |-> <<"7">>],
       [prompt |->
        <<"W","h","a","t"," ","i","s"," ","t","h","e"," ","B","i","g","-","O"," ","t","i",
          "m","e"," ","c","o","m","p","l","e","x","i","t","y"," ","o","f"," ","b","i",
          "n","a","r","y"," ","s","e","a","r","c","h"," ","o","n"," ","a"," ","s","o",
          "r","t","e","d"," ","a","r","r","a","y","?">>,
        solution |-> <<"O","(","l","o","g"," ","n",")">>] >>

\* mutant: an unset HOSTNAME defaults to the empty string
FallbackIndexEmptyDefault(e) ==
    (Len(Getenv(e, "HOSTNAME", <<>>)) + Len(Getenv(e, "PORT", <<"0">>))) % Len(pool)

\* idx of _fallback_question, 0-based as in the source
FallbackIndex(e) ==
    (Len(Getenv(e, "HOSTNAME", <<"x">>)) + Len(Getenv(e, "PORT", <<"0">>))) % Len(pool)

\* _fallback_question(): pool[idx]
FallbackQuestion(e) == pool[FallbackIndex(e) + 1]

---------------------------------------------------------------------------
(* JSON values, as json.loads and resp.json() return them *)

JNull == [t |-> "null"]
JNum(n) == [t |-> "num", n |-> n]
JStr(s) == [t |-> "str", s |-> s]
JArr(a) == [t |-> "arr", a |-> a]
JObj(f) == [t |-> "obj", f |-> f]
\* a key the object does not have
Absent == [t |-> "absent"]
\* the result of an expression that raised
Raised == [t |-> "raised"]

\* v[key]: raises unless v is a dict that has the key
Subscript(v, key) ==
    IF v.t = "obj" /\ key \in DOMAIN v.f THEN v.f[key] ELSE Raised

\* v[0]: the first element of a non-empty list; raises on an empty list, a
\* dict, a number and None.  (On a non-empty str Python returns a str, on
\* which the string subscript that follows every [0] of the path raises.)
Index0(v) ==
    IF v.t = "arr" /\ Len(v.a) > 0 THEN v.a[1] ELSE Raised

\* bool(v)
Truthy(v) ==
    CASE v.t = "null" -> FALSE
      [] v.t = "num" -> v.n # 0
      [] v.t = "str" -> v.s # <<>>
      [] v.t = "arr" -> v.a # <<>>
      [] v.t = "obj" -> DOMAIN v.f # {}
      [] OTHER -> FALSE

\* str(v) of a quiz field
PyStr(v) ==
    CASE v.t = "str" -> v.s
      [] v.t = "null" -> <<"N","o","n","e">>
      [] OTHER -> <<>>

---------------------------------------------------------------------------
(* The text of the upstream model *)

Ch(c) == [ch |-> c]
Members(p, s) == [ch |-> "members", prompt |-> p, solution |-> s]

SP == Ch(" ")
\* the backtick of a code fence
BT == Ch("backtick")
LB == Ch("{")
RB == Ch("}")
\* a character that is none of the above and starts no JSON value
JK == Ch("j")

\* json.loads(json_str): a dict with the fields of the members, or Raised.  The
\* slice parses iff, whitespace between its tokens aside, it is "{}" or
\* "{" members "}".
JsonLoads(slice) ==
    LET inner == SelectSeq(slice, LAMBDA k : k # SP)
    IN  CASE inner = <<LB, RB>> ->
               JObj([prompt |-> Absent, solution |-> Absent])
          [] Len(inner) = 3 /\ inner[1] = LB /\ inner[3] = RB
                /\ inner[2].ch = "members" ->
               JObj([prompt |-> inner[2].prompt, solution |-> inner[2].solution])
          [] OTHER -> Raised

\* obj.get(key, "")
ObjGet(obj, key) == IF obj.f[key] = Absent THEN JStr(<<>>) ELSE obj.f[key]

---------------------------------------------------------------------------
(* GET /quiz, lines 121-151: what the handler returns for an upstream      *)
(* outcome.  An outcome is [kind |-> "error"] (requests.post raised: no    *)
(* connection, timeout) or [kind |-> "http", status, body]; a body is      *)
(* [t |-> "notjson"] or a JSON value.                                      *)

\* resp.raise_for_status() raises
RaisesForStatus(status) == status >= 400 /\ status < 600

\* data["candidates"][0]["content"]["parts"][0]["text"], None if it raises
ExtractText(data) ==
    LET sub(v, k) == IF v = Raised THEN Raised ELSE Subscript(v, k)
        idx(v) == IF v = Raised THEN Raised ELSE Index0(v)
        got == sub(idx(sub(sub(idx(sub(data, "candidates")), "content"), "parts")),
                   "text")
    IN  IF got = Raised THEN JNull ELSE got

\* mutant: the length limits of lines 146-147 are left out
QuizFromTextUncut(e, text) ==
    LET text_stripped == Strip(Strip(text, {SP}), {BT})
        start == Find(text_stripped, LB)
        end == RFind(text_stripped, RB)
        obj == JsonLoads(SubSeq(text_stripped, start, end))
        prompt == Strip(PyStr(ObjGet(obj, "prompt")), Whitespace)
        solution == Strip(PyStr(ObjGet(obj, "solution")), Whitespace)
    IN  IF start = NotFound \/ end = NotFound THEN FallbackQuestion(e)
        ELSE IF obj = Raised THEN Raised
        ELSE IF prompt = <<>> \/ solution = <<>> THEN FallbackQuestion(e)
        ELSE [prompt |-> prompt, solution |-> solution]

\* mutant: the fields are cut to their limits before they are trimmed
QuizFromTextCutFirst(e, text) ==
    LET text_stripped == Strip(Strip(text, {SP}), {BT})
        start == Find(text_stripped, LB)
        end == RFind(text_stripped, RB)
        obj == JsonLoads(SubSeq(text_stripped, start, end))
        prompt == Strip(Take(PyStr(ObjGet(obj, "prompt")), PromptLimit), Whitespace)
        solution == Strip(Take(PyStr(ObjGet(obj, "solution")), SolutionLimit),
                          Whitespace)
    IN  IF start = NotFound \/ end = NotFound THEN FallbackQuestion(e)
        ELSE IF obj = Raised THEN Raised
        ELSE IF prompt = <<>> \/ solution = <<>> THEN FallbackQuestion(e)
        ELSE [prompt |-> prompt, solution |-> solution]

\* lines 133-148, text being a non-empty str: the item returned, Raised
\* when json.loads raises
QuizFromText(e, text) ==
    LET text_stripped == Strip(Strip(text, {SP}), {BT})
        start == Find(text_stripped, LB)
        end == RFind(text_stripped, RB)
        obj == JsonLoads(SubSeq(text_stripped, start, end))
        prompt == Strip(PyStr(ObjGet(obj, "prompt")), Whitespace)
        solution == Strip(PyStr(ObjGet(obj, "solution")), Whitespace)
    IN  IF start = NotFound \/ end = NotFound THEN FallbackQuestion(e)
        ELSE IF obj = Raised THEN Raised
        ELSE IF prompt = <<>> \/ solution = <<>> THEN FallbackQuestion(e)
        ELSE [prompt |-> Take(prompt, PromptLimit),
              solution |-> Take(solution, SolutionLimit)]

\* the body of the try, lines 122-148: the item returned, Raised when a
\* statement raises (text.strip() raises on a text that is no str)
QuizTry(e, out) ==
    IF out.kind = "error" THEN Raised
    ELSE IF RaisesForStatus(out.status) THEN Raised
    ELSE IF out.body.t = "notjson" THEN Raised
    ELSE LET text == ExtractText(out.body)
         IN  IF ~Truthy(text) THEN FallbackQuestion(e)
             ELSE IF text.t # "str" THEN Raised
             ELSE QuizFromText(e, text.s)

\* mutant: no except clause, the exception leaves the handler
QuizFromResponseUncaught(e, out) == QuizTry(e, out)

\* lines 108-151: the try and its except Exception
QuizFromResponse(e, out) ==
    LET r == QuizTry(e, out)
    IN  IF r = Raised THEN FallbackQuestion(e) ELSE r

---------------------------------------------------------------------------
(* GET /test.  A database situation is [import, msg, present, hasName,     *)
(* name]: import is "missing" (ImportError), "error" (another exception,   *)
(* with message msg) or "ok"; present says that db is not None.  The       *)
(* result of db.list_collection_names() is [ok |-> TRUE, names] or         *)
(* [ok |-> FALSE, msg] (it raised).                                        *)

\* response[k] = v
DictSet(d, k, v) == [x \in DOMAIN d \cup {k} |-> IF x = k THEN v ELSE d[x]]

\* mutant: the initial response has no "collections" key
InitialResponseNoCollections ==
    [backend |-> "Running",
     database |-> [t |-> "not_available"],
     database_url |-> [t |-> "none"],
     database_name |-> [t |-> "none"],
     connection_status |-> "Not Connected"]

\* lines 29-36
InitialResponse ==
    [backend |-> "Running",
     database |-> [t |-> "not_available"],
     database_url |-> [t |-> "none"],
     database_name |-> [t |-> "none"],
     connection_status |-> "Not Connected",
     collections |-> <<>>]

\* lines 42-46
HandleFound(response, db) ==
    LET r1 == DictSet(response, "database", [t |-> "available"])
        r2 == DictSet(r1, "database_url", [t |-> "configured"])
        r3 == DictSet(r2, "database_name",
                      IF db.hasName THEN [t |-> "name", name |-> db.name]
                      ELSE [t |-> "connected"])
    IN  DictSet(r3, "connection_status", "Connected")

\* lines 38-46 and 55-61, up to the enumeration: the response so far and
\* whether the enumeration is next
ImportStep(response, db) ==
    CASE db.import = "missing" ->
           [response |-> DictSet(response, "database", [t |-> "module_not_found"]),
            enumerate |-> FALSE]
      [] db.import = "error" ->
           [response |-> DictSet(response, "database",
                                 [t |-> "error", msg |-> Take(db.msg, ErrorLimit)]),
            enumerate |-> FALSE]
      [] db.import = "ok" /\ ~db.present ->
           [response |-> DictSet(response, "database", [t |-> "not_initialized"]),
            enumerate |-> FALSE]
      [] OTHER ->
           [response |-> HandleFound(response, db), enumerate |-> TRUE]

\* mutant: the enumerated list is returned whole
EnumerateStepUncut(response, result) ==
    IF result.ok
    THEN DictSet(DictSet(response, "collections", result.names),
                 "database", [t |-> "working"])
    ELSE DictSet(response, "database",
                 [t |-> "connected_error", msg |-> Take(result.msg, ErrorLimit)])

\* lines 49-54
EnumerateStep(response, result) ==
    IF result.ok
    THEN DictSet(DictSet(response, "collections", Take(result.names, CollectionsLimit)),
                 "database", [t |-> "working"])
    ELSE DictSet(response, "database",
                 [t |-> "connected_error", msg |-> Take(result.msg, ErrorLimit)])

\* mutant: what the handle reported is kept, the environment only fills in
EnvStepKeep(response, e) ==
    LET r1 == IF response["database_url"] # [t |-> "none"] THEN response
              ELSE DictSet(response, "database_url",
                           IF GetenvTruthy(e, "DATABASE_URL")
                           THEN [t |-> "set"] ELSE [t |-> "not_set"])
    IN  IF r1["database_name"] # [t |-> "none"] THEN r1
        ELSE DictSet(r1, "database_name",
                     IF GetenvTruthy(e, "DATABASE_NAME")
                     THEN [t |-> "set"] ELSE [t |-> "not_set"])

\* lines 63-66
EnvStep(response, e) ==
    LET r1 == DictSet(response, "database_url",
                      IF GetenvTruthy(e, "DATABASE_URL")
                      THEN [t |-> "set"] ELSE [t |-> "not_set"])
    IN  DictSet(r1, "database_name",
                IF GetenvTruthy(e, "DATABASE_NAME")
                THEN [t |-> "set"] ELSE [t |-> "not_set"])

---------------------------------------------------------------------------
(* The inputs of the model *)

abc == <<"a","b","c">>
p8000 == <<"8","0","0","0">>

MkEnv(h, p, k, u, n) ==
    [HOSTNAME |-> h, PORT |-> p, GEMINI_API_KEY |-> k,
     DATABASE_URL |-> u, DATABASE_NAME |-> n]

\* the environments of Spec
Envs ==
    {MkEnv(h, p, k, u, Unset) :
        h \in {Unset, Val(<<>>), Val(abc)},
        p \in {Unset, Val(<<>>), Val(p8000)},
        k \in {Unset, Val(<<>>), Val(<<"k">>)},
        u \in {Unset, Val(<<"u">>)}}

\* the environments of SpecQuiz
QuizEnvs ==
    {MkEnv(h, p, k, Unset, Unset) :
        h \in {Unset, Val(abc)},
        p \in {Unset, Val(p8000)},
        k \in {Unset, Val(<<>>), Val(<<"k">>)}}

\* the environments of SpecTest
TestEnvs ==
    {MkEnv(Unset, Unset, Unset, u, n) :
        u \in {Unset, Val(<<>>), Val(<<"u">>)},
        n \in {Unset, Val(<<>>), Val(<<"n">>)}}

\* the strings of a quiz field around a limit: empty, blank, short, padded,
\* at the limit, over it, and with whitespace at the cut
FieldStrings(limit) ==
    {<<>>, <<" ">>, <<"Q">>, <<" ", "Q">>, <<" ", "Q", " ">>,
     Rep("a", limit), Rep("a", limit + 1),
     <<" ">> \o Rep("a", limit + 1) \o <<" ">>,
     Rep("a", limit - 1) \o <<" ", "b">>}

FieldValues(limit) == {Absent, JNull} \cup {JStr(x) : x \in FieldStrings(limit)}

\* the (prompt, solution) pairs of the members: each field varied against a
\* plain value of the other, both absent, both over their limits
FieldPairs ==
    {<<p, JStr(<<"A">>)>> : p \in FieldValues(PromptLimit)}
    \cup {<<JStr(<<"Q">>), x>> : x \in FieldValues(SolutionLimit)}
    \cup {<<Absent, Absent>>,
          <<JStr(Rep("a", PromptLimit + 1)), JStr(Rep("a", SolutionLimit + 1))>>}

RECURSIVE SeqsUpTo(_, _)
SeqsUpTo(S, n) ==
    IF n = 0 THEN {<<>>}
    ELSE LET shorter == SeqsUpTo(S, n - 1)
         IN  shorter \cup {Append(x, c) : x \in shorter, c \in S}

\* what precedes the first brace and follows the last
Affixes == SeqsUpTo({SP, BT, JK}, MaxAffix)

\* the texts from the first brace to the last, without and with members
PlainCores ==
    {<<>>, <<LB>>, <<RB>>, <<RB, LB>>, <<LB, RB>>, <<LB, SP, RB>>, <<LB, JK, RB>>}
MemberCores(m) ==
    {<<m>>, <<LB, m, RB>>, <<LB, SP, m, SP, RB>>, <<LB, m, RB, JK, LB, RB>>,
     <<LB, LB, m, RB, RB>>, <<LB, m, m, RB>>}

Texts ==
    {a \o c \o b : a \in Affixes, b \in Affixes,
        c \in PlainCores \cup
              UNION {MemberCores(Members(f[1], f[2])) : f \in FieldPairs}}

\* a response body whose path candidates[0].content.parts[0].text holds v
BodyWithText(v) ==
    JObj([candidates |-> JArr(<< JObj([content |->
            JObj([parts |-> JArr(<< JObj([text |-> v]) >>)])]) >>)])

\* the bodies of a response
Bodies ==
    {[t |-> "notjson"], JNull, JArr(<<>>), JObj(<<>>),
     JObj([candidates |-> JArr(<<>>)]),
     JObj([candidates |-> JNull]),
     JObj([candidates |-> JArr(<<JObj(<<>>)>>)]),
     JObj([candidates |-> JArr(<<JObj([content |-> JObj(<<>>)])>>)]),
     JObj([candidates |-> JArr(<<JObj([content |-> JObj([parts |-> JArr(<<>>)])])>>)]),
     JObj([candidates |->
           JArr(<<JObj([content |-> JObj([parts |-> JArr(<<JObj(<<>>)>>)])])>>)]),
     BodyWithText(JNull), BodyWithText(JNum(0)), BodyWithText(JNum(7)),
     BodyWithText(JArr(<<JNull>>))}
    \cup {BodyWithText(JStr(x)) : x \in Texts}

\* 300 is a status requests returns as it is: no redirect is followed and
\* raise_for_status() does not raise
StatusCodes == {200, 300, 404, 500}

\* the outcomes of requests.post in SpecQuiz
Outcomes ==
    {[kind |-> "error"]}
    \cup {[kind |-> "http", status |-> c, body |-> [t |-> "notjson"]] :
             c \in StatusCodes \ {200}}
    \cup {[kind |-> "http", status |-> c,
           body |-> BodyWithText(JStr(<<LB, Members(JStr(<<"Q">>), JStr(<<"A">>)), RB>>))] :
             c \in StatusCodes \ {200}}
    \cup {[kind |-> "http", status |-> 200, body |-> b] : b \in Bodies}

\* the outcomes of requests.post in Spec
FewOutcomes ==
    {[kind |-> "error"],
     [kind |-> "http", status |-> 500, body |-> [t |-> "notjson"]],
     [kind |-> "http", status |-> 200, body |-> BodyWithText(JStr(<<JK>>))],
     [kind |-> "http", status |-> 200,
      body |-> BodyWithText(JStr(<<LB, Members(JStr(<<" ", "Q">>), JStr(<<"A">>)), RB>>))]}

\* error messages around the limit
Messages == {Rep("e", n) : n \in {0, 1, ErrorLimit, ErrorLimit + 1}}

mydb == <<"m","y","d","b">>

\* the database situations of SpecTest
DbSituations ==
    {[import |-> "missing", msg |-> <<>>, present |-> FALSE, hasName |-> FALSE,
      name |-> <<>>],
     [import |-> "ok", msg |-> <<>>, present |-> FALSE, hasName |-> FALSE,
      name |-> <<>>]}
    \cup {[import |-> "error", msg |-> m, present |-> FALSE, hasName |-> FALSE,
           name |-> <<>>] : m \in Messages}
    \cup {[import |-> "ok", msg |-> <<>>, present |-> TRUE, hasName |-> h,
           name |-> IF h THEN mydb ELSE <<>>] : h \in BOOLEAN}

\* the database situations of Spec
FewDbSituations ==
    {d \in DbSituations : d.import # "error" /\ (d.present => d.hasName)}

\* collection names are modelled by numbers; the lists come in both orders
Ascending(n) == [i \in 1..n |-> i]
Descending(n) == [i \in 1..n |-> n + 1 - i]

\* the results of db.list_collection_names() in SpecTest
EnumResults ==
    {[ok |-> TRUE, names |-> l] :
        l \in {Ascending(n) : n \in 0..MaxCollections}
              \cup {Descending(n) : n \in 0..MaxCollections}}
    \cup {[ok |-> FALSE, msg |-> m] : m \in Messages}

\* the results of db.list_collection_names() in Spec
FewEnumResults ==
    {[ok |-> TRUE, names |-> Descending(2)], [ok |-> FALSE, msg |-> <<"e">>]}

---------------------------------------------------------------------------
(* The requests.  A slot holds the frame of the handler serving a request: *)
(* its endpoint (kind), its position (pc), its local variables and, once   *)
(* pc = "done", the HTTP status and the response it returns.               *)

Idle == [kind |-> "idle", pc |-> "idle"]

\* the handler returned value r: FastAPI answers 200 with r, and 500 when
\* the handler raised
Returned(kind, locals, r) ==
    [kind |-> kind, pc |-> "done", locals |-> locals,
     status |-> IF r = Raised THEN 500 ELSE 200, response |-> r]

\* read_root(), lines 18-20
ReadRoot(r) ==
    /\ req[r] = Idle
    /\ req' = [req EXCEPT ![r] =
                 Returned("root", <<>>, [message |-> "Hello from FastAPI Backend!"])]
    /\ UNCHANGED env

\* hello(), lines 22-24
Hello(r) ==
    /\ req[r] = Idle
    /\ req' = [req EXCEPT ![r] =
                 Returned("hello", <<>>, [message |-> "Hello from the backend API!"])]
    /\ UNCHANGED env

\* mutant: response is one module-level dict, which every call resets and
\* every request in flight writes to
TestStartShared(r, dbs) ==
    /\ req[r] = Idle
    /\ \E db \in dbs :
         LET step == ImportStep(InitialResponse, db)
         IN  req' = [x \in DOMAIN req |->
                       IF x = r
                       THEN [kind |-> "test",
                             pc |-> IF step.enumerate THEN "enumerate" ELSE "env",
                             locals |-> [db |-> db, enumerated |-> FALSE,
                                         result |-> [ok |-> FALSE, msg |-> <<>>],
                                         response |-> step.response]]
                       ELSE IF req[x].kind = "test" /\ req[x].pc # "done"
                       THEN [req[x] EXCEPT !.locals.response = step.response]
                       ELSE req[x]]
    /\ UNCHANGED env

\* test_database(), lines 29-46 and 55-61: the import and the handle
TestStart(r, dbs) ==
    /\ req[r] = Idle
    /\ \E db \in dbs :
         LET step == ImportStep(InitialResponse, db)
         IN  req' = [req EXCEPT ![r] =
                       [kind |-> "test",
                        pc |-> IF step.enumerate THEN "enumerate" ELSE "env",
                        locals |-> [db |-> db, enumerated |-> FALSE,
                                    result |-> [ok |-> FALSE, msg |-> <<>>],
                                    response |-> step.response]]]
    /\ UNCHANGED env

\* test_database(), lines 48-54: the enumeration
TestEnumerate(r, results) ==
    /\ req[r].kind = "test" /\ req[r].pc = "enumerate"
    /\ \E result \in results :
         req' = [req EXCEPT ![r] =
                   [kind |-> "test", pc |-> "env",
                    locals |-> [db |-> req[r].locals.db, enumerated |-> TRUE,
                                result |-> result,
                                response |-> EnumerateStep(req[r].locals.response,
                                                           result)]]]
    /\ UNCHANGED env

\* test_database(), lines 63-68: the environment check and the return
TestReturn(r) ==
    /\ req[r].kind = "test" /\ req[r].pc = "env"
    /\ req' = [req EXCEPT ![r] =
                 Returned("test", [db |-> req[r].locals.db,
                                   enumerated |-> req[r].locals.enumerated,
                                   result |-> req[r].locals.result],
                          EnvStep(req[r].locals.response, env))]
    /\ UNCHANGED env

NoOutcome == [kind |-> "none"]

\* mutant: only an unset credential takes the fallback, an empty one is used
QuizStartNoneOnly(r) ==
    /\ req[r] = Idle
    /\ LET api_key == env["GEMINI_API_KEY"]
           locals == [api_key |-> api_key, calls |-> 0, out |-> NoOutcome]
       IN  req' = [req EXCEPT ![r] =
                     IF ~api_key.set
                     THEN Returned("quiz", locals, FallbackQuestion(env))
                     ELSE [kind |-> "quiz", pc |-> "post", locals |-> locals]]
    /\ UNCHANGED env

\* get_quiz(), lines 104-106: the credential
QuizStart(r) ==
    /\ req[r] = Idle
    /\ LET api_key == env["GEMINI_API_KEY"]
           locals == [api_key |-> api_key, calls |-> 0, out |-> NoOutcome]
       IN  req' = [req EXCEPT ![r] =
                     IF ~GetenvTruthy(env, "GEMINI_API_KEY")
                     THEN Returned("quiz", locals, FallbackQuestion(env))
                     ELSE [kind |-> "quiz", pc |-> "post", locals |-> locals]]
    /\ UNCHANGED env

\* get_quiz(), lines 109-121: the outbound request and its outcome
QuizPost(r, outs) ==
    /\ req[r].kind = "quiz" /\ req[r].pc = "post"
    /\ \E out \in outs :
         req' = [req EXCEPT ![r] =
                   [kind |-> "quiz", pc |-> "parse",
                    locals |-> [api_key |-> req[r].locals.api_key,
                                calls |-> req[r].locals.calls + 1,
                                out |-> out]]]
    /\ UNCHANGED env

\* mutant: a request that raised is retried once
QuizFinishRetry(r) ==
    /\ req[r].kind = "quiz" /\ req[r].pc = "parse"
    /\ req' = [req EXCEPT ![r] =
                 IF req[r].locals.out.kind = "error" /\ req[r].locals.calls < 2
                 THEN [kind |-> "quiz", pc |-> "post", locals |-> req[r].locals]
                 ELSE Returned("quiz", req[r].locals,
                               QuizFromResponse(env, req[r].locals.out))]
    /\ UNCHANGED env

\* get_quiz(), lines 122-151: the response is parsed and the item returned
QuizFinish(r) ==
    /\ req[r].kind = "quiz" /\ req[r].pc = "parse"
    /\ req' = [req EXCEPT ![r] =
                 Returned("quiz", req[r].locals,
                          QuizFromResponse(env, req[r].locals.out))]
    /\ UNCHANGED env

\* the response is sent and the slot serves the next request
Respond(r) ==
    /\ req[r].pc = "done"
    /\ req' = [req EXCEPT ![r] = Idle]
    /\ UNCHANGED env

---------------------------------------------------------------------------
(* Spec: MaxSlots requests of any endpoint, served concurrently *)

Slots == 1..MaxSlots

Init ==
    /\ env \in Envs
    /\ req = [r \in Slots |-> Idle]

Next ==
    \E r \in Slots :
        \/ ReadRoot(r)
        \/ Hello(r)
        \/ TestStart(r, FewDbSituations)
        \/ TestEnumerate(r, FewEnumResults)
        \/ TestReturn(r)
        \/ QuizStart(r)
        \/ QuizPost(r, FewOutcomes)
        \/ QuizFinish(r)
        \/ Respond(r)

Spec == Init /\ [][Next]_vars

(* SpecQuiz: one /quiz request at a time, over all upstream outcomes *)

InitQuiz ==
    /\ env \in QuizEnvs
    /\ req = [r \in {1} |-> Idle]

NextQuiz ==
    \/ QuizStart(1)
    \/ QuizPost(1, Outcomes)
    \/ QuizFinish(1)
    \/ Respond(1)

SpecQuiz == InitQuiz /\ [][NextQuiz]_vars

(* SpecTest: one /test request at a time, over all database situations *)

InitTest ==
    /\ env \in TestEnvs
    /\ req = [r \in {1} |-> Idle]

NextTest ==
    \/ TestStart(1, DbSituations)
    \/ TestEnumerate(1, EnumResults)
    \/ TestReturn(1)
    \/ Respond(1)

SpecTest == InitTest /\ [][NextTest]_vars

---------------------------------------------------------------------------
(* The handlers as a whole: the response of a request served alone *)

\* get_quiz(), lines 102-151
GetQuiz(e, out) ==
    IF ~GetenvTruthy(e, "GEMINI_API_KEY") THEN FallbackQuestion(e)
    ELSE QuizFromResponse(e, out)

\* test_database(), lines 26-68; result is read only when the handle is there
TestDatabase(e, db, result) ==
    LET step == ImportStep(InitialResponse, db)
    IN  EnvStep(IF step.enumerate THEN EnumerateStep(step.response, result)
                ELSE step.response, e)

---------------------------------------------------------------------------
(* Vocabulary of the properties *)

Serving == DOMAIN req
Done(r, kind) == req[r].kind = kind /\ req[r].pc = "done"
Range(s) == {s[i] : i \in 1..Len(s)}

\* the item the selector is documented to return: the lengths of HOSTNAME
\* and PORT, an unset variable counting 1, modulo 5
DocumentedIndex(e) ==
    ((IF e["HOSTNAME"].set THEN Len(e["HOSTNAME"].val) ELSE 1)
     + (IF e["PORT"].set THEN Len(e["PORT"].val) ELSE 1)) % 5
DocumentedItem(e) == pool[DocumentedIndex(e) + 1]

\* the body holds candidates[0].content.parts[0].text
HasTextPath(b) ==
    /\ b.t = "obj" /\ "candidates" \in DOMAIN b.f
    /\ LET c == b.f["candidates"]
       IN  /\ c.t = "arr" /\ Len(c.a) > 0
           /\ c.a[1].t = "obj" /\ "content" \in DOMAIN c.a[1].f
           /\ LET k == c.a[1].f["content"]
              IN  /\ k.t = "obj" /\ "parts" \in DOMAIN k.f
                  /\ k.f["parts"].t = "arr" /\ Len(k.f["parts"].a) > 0
                  /\ k.f["parts"].a[1].t = "obj"
                  /\ "text" \in DOMAIN k.f["parts"].a[1].f
TextOf(b) == b.f["candidates"].a[1].f["content"].f["parts"].a[1].f["text"]

\* the text from its first "{" to its last "}"
BetweenBraces(text) == SubSeq(text, Find(text, LB), RFind(text, RB))

\* the object between the braces, Raised when a brace is missing or the
\* text between them does not parse
ObjectOf(text) ==
    IF LB \in Range(text) /\ RB \in Range(text)
    THEN JsonLoads(BetweenBraces(text)) ELSE Raised

\* a field that is missing or is a string of whitespace only
EmptyAfterTrimming(v) ==
    v = Absent \/ (v.t = "str" /\ \A i \in 1..Len(v.s) : v.s[i] \in Whitespace)

\* the statuses that are no success: those for which Response.ok is false
\* and raise_for_status() raises, 4xx and 5xx
ErrorStatus(status) == status \in 400..599

\* the upstream call succeeded with a str as its text
SuccessWithText(out) ==
    /\ out.kind = "http" /\ ~ErrorStatus(out.status)
    /\ out.body.t # "notjson" /\ HasTextPath(out.body)
    /\ TextOf(out.body).t = "str"

\* the ways the upstream call fails
UpstreamFailed(out) ==
    \/ out.kind = "error"
    \/ out.kind = "http" /\ ErrorStatus(out.status)
    \/ out.kind = "http" /\ out.body.t = "notjson"
    \/ out.kind = "http" /\ out.body.t # "notjson" /\ ~HasTextPath(out.body)
    \/ /\ SuccessWithText(out)
       /\ LET text == TextOf(out.body).s
          IN  \/ text = <<>>
              \/ LB \notin Range(text)
              \/ RB \notin Range(text)
              \/ JsonLoads(BetweenBraces(text)) = Raised
              \/ LET obj == JsonLoads(BetweenBraces(text))
                 IN  \/ EmptyAfterTrimming(obj.f["prompt"])
                     \/ EmptyAfterTrimming(obj.f["solution"])

\* a /quiz request with a credential, answered after its upstream call
QuizAnswered(r) ==
    /\ Done(r, "quiz")
    /\ req[r].locals.out # NoOutcome

---------------------------------------------------------------------------
C2_ItemWellFormed ==
    \A r \in Serving :
        Done(r, "quiz")
            => /\ req[r].status = 200
               /\ req[r].response # Raised
               /\ DOMAIN req[r].response = {"prompt", "solution"}
               /\ Len(req[r].response.prompt) \in 1..300
               /\ Len(req[r].response.solution) \in 1..100

\* an upstream prompt and solution over their limits were cut to them
C2_Witness ==
    \E r \in Serving :
        /\ QuizAnswered(r)
        /\ SuccessWithText(req[r].locals.out)
        /\ LET obj == ObjectOf(TextOf(req[r].locals.out.body).s)
           IN  /\ obj # Raised
               /\ obj.f["prompt"].t = "str" /\ Len(obj.f["prompt"].s) > 300
               /\ obj.f["solution"].t = "str" /\ Len(obj.f["solution"].s) > 100
        /\ Len(req[r].response.prompt) = 300
        /\ Len(req[r].response.solution) = 100

\* the text holds a JSON object with a non-empty string prompt and solution
EmbeddedItems(text) ==
    {obj \in {JsonLoads(SubSeq(text, i, j)) : i \in 1..Len(text), j \in 1..Len(text)} :
        /\ obj # Raised
        /\ obj.f["prompt"].t = "str" /\ obj.f["prompt"].s # <<>>
        /\ obj.f["solution"].t = "str" /\ obj.f["solution"].s # <<>>}

(* C3 as stated: when the text of a successful response contains valid    *)
(* embedded JSON with a non-empty prompt and solution, /quiz returns       *)
(* exactly those values, cut to 300 and 100 characters.                    *)
C3_AsStated ==
    \A r \in Serving :
        (QuizAnswered(r) /\ SuccessWithText(req[r].locals.out))
            => \A obj \in EmbeddedItems(TextOf(req[r].locals.out.body).s) :
                   req[r].response =
                       [prompt |-> Take(obj.f["prompt"].s, 300),
                        solution |-> Take(obj.f["solution"].s, 100)]

(* C3, amended: when the text of a successful response, from its first    *)
(* "{" to its last "}", is a JSON object whose prompt and solution are     *)
(* strings that are not empty after trimming, /quiz returns those values   *)
(* with the surrounding whitespace trimmed and then cut to 300 and 100     *)
(* characters.                                                             *)
C3_TrimmedThenCut ==
    \A r \in Serving :
        (QuizAnswered(r) /\ SuccessWithText(req[r].locals.out))
            => LET text == TextOf(req[r].locals.out.body).s
                   obj == ObjectOf(text)
               IN  (/\ obj # Raised
                    /\ obj.f["prompt"].t = "str" /\ obj.f["solution"].t = "str"
                    /\ ~EmptyAfterTrimming(obj.f["prompt"])
                    /\ ~EmptyAfterTrimming(obj.f["solution"]))
                   => /\ req[r].status = 200
                      /\ req[r].response =
                           [prompt |-> Take(Strip(obj.f["prompt"].s, {" "}), 300),
                            solution |-> Take(Strip(obj.f["solution"].s, {" "}), 100)]

\* a padded prompt over the limit was trimmed, then cut
C3_Witness ==
    \E r \in Serving :
        /\ QuizAnswered(r)
        /\ SuccessWithText(req[r].locals.out)
        /\ LET text == TextOf(req[r].locals.out.body).s
               obj == ObjectOf(text)
           IN  /\ obj # Raised
               /\ obj.f["prompt"] = JStr(<<" ">> \o Rep("a", 301) \o <<" ">>)
               /\ req[r].response.prompt = Rep("a", 300)

---------------------------------------------------------------------------
\* the request was answered with the fallback item without parsing a body:
\* no credential, or the outbound request raised
TookFallback(r) ==
    /\ Done(r, "quiz")
    /\ \/ ~(req[r].locals.api_key.set /\ req[r].locals.api_key.val # <<>>)
       \/ req[r].locals.out.kind = "error"

(* C4: a /quiz request served without a credential (GEMINI_API_KEY unset  *)
(* or empty) is answered, without any upstream call, with one of the 5     *)
(* pool items, and any two such requests under the same environment get    *)
(* the same item.                                                          *)
C4_NoCredentialSameItem ==
    \A r \in Serving :
        (Done(r, "quiz") /\ ~GetenvTruthy(env, "GEMINI_API_KEY"))
            => /\ Len(pool) = 5
               /\ req[r].status = 200
               /\ req[r].response \in {pool[i] : i \in 1..5}
               /\ \A q \in Serving :
                     Done(q, "quiz") => req[q].response = req[r].response

\* two requests were answered under an empty credential
C4_Witness ==
    /\ env["GEMINI_API_KEY"] = Val(<<>>)
    /\ \E r, q \in Serving :
          /\ r # q /\ Done(r, "quiz") /\ Done(q, "quiz")
          /\ req[r].response = req[q].response
          /\ req[r].response \in Range(pool)

(* C5: the selector returns the pool item at index (length of HOSTNAME +  *)
(* length of PORT) mod 5, an unset HOSTNAME counting as "x" and an unset   *)
(* PORT as "0"; the index is in 0..4; for HOSTNAME=abc, PORT=8000 it is 2, *)
(* the 'Hamlet' / William Shakespeare item.                                *)
C5_SelectorIndex ==
    \A r \in Serving :
        TookFallback(r)
            => /\ DocumentedIndex(env) \in 0..4
               /\ req[r].response = pool[DocumentedIndex(env) + 1]
               /\ (env["HOSTNAME"] = Val(abc) /\ env["PORT"] = Val(p8000))
                     => /\ DocumentedIndex(env) = 2
                        /\ req[r].response.prompt =
                             <<"W","h","o"," ","w","r","o","t","e"," ","t","h","e"," ",
                               "p","l","a","y"," ","'","H","a","m","l","e","t","'","?">>
                        /\ req[r].response.solution =
                             <<"W","i","l","l","i","a","m"," ",
                               "S","h","a","k","e","s","p","e","a","r","e">>

\* the fallback was returned under HOSTNAME=abc, PORT=8000
C5_Witness ==
    /\ env["HOSTNAME"] = Val(abc) /\ env["PORT"] = Val(p8000)
    /\ \E r \in Serving : TookFallback(r) /\ req[r].response = pool[3]

---------------------------------------------------------------------------
SixKeys ==
    {"backend", "database", "database_url", "database_name", "connection_status",
     "collections"}

(* C6: a /test request always completes with a 200 response that holds    *)
(* the six keys, in every database situation: module missing, import       *)
(* raising, handle None, enumeration succeeding, enumeration raising.      *)
C6_AlwaysSixKeys ==
    \A r \in Serving :
        req[r].kind = "test"
            => /\ req[r].pc = "done"
                    => /\ req[r].status = 200
                       /\ DOMAIN req[r].response = SixKeys
               /\ req[r].pc # "done"
                    => /\ DOMAIN req[r].locals.response = SixKeys
                       /\ ENABLED (TestEnumerate(r, EnumResults) \/ TestReturn(r))

\* a request whose import raised was answered
C6_Witness ==
    \E r \in Serving :
        /\ Done(r, "test")
        /\ req[r].locals.db.import = "error"
        /\ req[r].status = 200
        /\ DOMAIN req[r].response = SixKeys

(* C7: in every /test response database_url and database_name say only    *)
(* whether DATABASE_URL and DATABASE_NAME are set (non-empty), whatever    *)
(* the state of the handle: never a value, never the name of the handle.   *)
C7_PresenceOnly ==
    \A r \in Serving :
        Done(r, "test")
            => /\ req[r].response.database_url =
                    (IF env["DATABASE_URL"].set /\ Len(env["DATABASE_URL"].val) > 0
                     THEN [t |-> "set"] ELSE [t |-> "not_set"])
               /\ req[r].response.database_name =
                    (IF env["DATABASE_NAME"].set /\ Len(env["DATABASE_NAME"].val) > 0
                     THEN [t |-> "set"] ELSE [t |-> "not_set"])

\* a named handle was found while both variables are unset
C7_Witness ==
    \E r \in Serving :
        /\ Done(r, "test")
        /\ req[r].locals.db.present /\ req[r].locals.db.hasName
        /\ ~env["DATABASE_URL"].set /\ ~env["DATABASE_NAME"].set
        /\ req[r].response.database_name = [t |-> "not_set"]
        /\ req[r].response.database_url = [t |-> "not_set"]

(* C8: with a handle present, an enumeration that succeeds gives the      *)
(* 'Connected & Working' state and the first min(10, n) names in order;    *)
(* one that raises gives the first 50 characters of the message and leaves *)
(* collections empty.  collections never has more than 10 entries.         *)
C8_Enumeration ==
    \A r \in Serving :
        Done(r, "test")
            => /\ Len(req[r].response.collections) <= 10
               /\ req[r].locals.db.present
                    => LET result == req[r].locals.result
                       IN  /\ req[r].locals.enumerated
                           /\ result.ok
                                => /\ req[r].response.database = [t |-> "working"]
                                   /\ req[r].response.collections =
                                        [i \in 1..(IF Len(result.names) < 10
                                                   THEN Len(result.names) ELSE 10)
                                           |-> result.names[i]]
                           /\ ~result.ok
                                => /\ req[r].response.database =
                                        [t |-> "connected_error",
                                         msg |-> [i \in 1..(IF Len(result.msg) < 50
                                                            THEN Len(result.msg) ELSE 50)
                                                    |-> result.msg[i]]]
                                   /\ req[r].response.collections = <<>>

\* more than 10 names were enumerated and 10 returned
C8_Witness ==
    \E r \in Serving :
        /\ Done(r, "test")
        /\ req[r].locals.db.present /\ req[r].locals.result.ok
        /\ Len(req[r].locals.result.names) > 10
        /\ Len(req[r].response.collections) = 10

---------------------------------------------------------------------------
\* the outbound request raised or was answered with an error status
CallFailed(out) ==
    \/ out.kind = "error"
    \/ out.kind = "http" /\ ErrorStatus(out.status)

(* C9: a /quiz request issues at most one outbound request: none without  *)
(* a credential, exactly one with it; there is no retry, and the step that *)
(* follows a failed call returns the fallback item.                        *)
C9_SingleCall ==
    /\ [](\A r \in Serving :
            req[r].kind = "quiz"
                => /\ req[r].locals.calls <= 1
                   /\ req[r].pc = "done"
                        => req[r].locals.calls =
                             (IF GetenvTruthy(env, "GEMINI_API_KEY") THEN 1 ELSE 0))
    /\ [][\A r \in Serving :
            (/\ req[r].kind = "quiz" /\ req[r].pc = "parse"
             /\ CallFailed(req[r].locals.out)
             /\ req'[r] # req[r])
                => /\ req'[r].pc = "done"
                   /\ req'[r].locals.calls = 1
                   /\ req'[r].response = DocumentedItem(env)]_vars

\* a request whose only call failed was answered with the fallback item
C9_Witness ==
    \E r \in Serving :
        /\ Done(r, "quiz")
        /\ req[r].locals.calls = 1
        /\ CallFailed(req[r].locals.out)
        /\ req[r].response = DocumentedItem(env)

\* the response of the request of slot r, had it been served alone
AloneResponse(r) ==
    CASE req[r].kind = "root" -> [message |-> "Hello from FastAPI Backend!"]
      [] req[r].kind = "hello" -> [message |-> "Hello from the backend API!"]
      [] req[r].kind = "test" ->
           TestDatabase(env, req[r].locals.db, req[r].locals.result)
      [] req[r].kind = "quiz" -> GetQuiz(env, req[r].locals.out)

(* C10: no step of a request changes the environment or the state of      *)
(* another request, and under every interleaving each request gets the     *)
(* response it would get alone, given the same environment, database       *)
(* outcome and upstream outcome.                                           *)
C10_Isolation ==
    /\ [](\A r \in Serving :
            req[r].pc = "done"
                => /\ req[r].status = 200
                   /\ req[r].response = AloneResponse(r))
    /\ [][/\ env' = env
          /\ Cardinality({r \in Serving : req'[r] # req[r]}) <= 1]_vars

\* a /test and a /quiz request that were in flight together are both answered
C10_Witness ==
    \E r, q \in Serving :
        /\ Done(r, "test") /\ req[r].locals.enumerated /\ req[r].locals.result.ok
        /\ Done(q, "quiz") /\ req[q].locals.calls = 1
        /\ req[r].response = AloneResponse(r)
        /\ req[q].response = AloneResponse(q)

===========================================================================
